---- MODULE Spec2Model ----
(***************************************************************************)
(* Member registration of the experimental type-class analysis             *)
(* (libsolidity/experimental/analysis/TypeClassMemberRegistration.cpp).    *)
(*                                                                         *)
(* The constructor seeds the annotation store with the builtin classes'    *)
(* member tables and the operator table; analyze() traverses a source unit *)
(* and endVisit(TypeClassDefinition) builds one member table per user      *)
(* class, reporting a fatal type error on a duplicated member name.        *)
(***************************************************************************)
EXTENDS Integers, Sequences, FiniteSets, TLC

\* ------------------------------------------------------------------ bounds
MaxClasses == 2        \* user class declarations in the source unit
MaxMembers == 3        \* function declarations in one class
MaxPriorErrors == 1    \* errors the reporter holds before analyze() is called
MaxConstructions == 2  \* constructions of the pass over the same Analysis

\* Member names user classes draw from; "eq" is also a builtin member's name.
Names == {"show", "eq"}

VARIABLES
    sourceUnit,          \* input: the class definitions, in traversal order
    argOrder,            \* build: evaluation order of the arguments at l.109-112
    pc,                  \* "new" | "ready" | "analyzing" | "done" | "threw"
    constructions,       \* how often the constructor ran
    visited,             \* class definitions endVisit was entered for
    operators,           \* annotation().operators
    typeClassFunctions,  \* annotation().typeClassFunctions
    errors,              \* the error reporter's list
    priorErrors,         \* length of that list when the pass was created
    nextVar,             \* the type system's fresh-variable counter
    functionTypes,       \* endVisit's local map as it was when endVisit was left
    result               \* what analyze() returned: "none" | "true" | "false"

vars == <<sourceUnit, argOrder, pc, constructions, visited, operators,
          typeClassFunctions, errors, priorErrors, nextVar, functionTypes, result>>

\* ------------------------------------------------------------- small maps
EmptyMap == [x \in {} |-> 0]

\* operator[] followed by assignment: insert or overwrite.
MapAssign(m, k, v) == [x \in (DOMAIN m) \cup {k} |-> IF x = k THEN v ELSE m[x]]

\* A braced initialiser list with one pair.
SingletonMap(k, v) == [x \in {k} |-> v]

\* ------------------------------------------------------ type representation
Var(n) == [kind |-> "var", name |-> "", id |-> n, args |-> <<>>]
PrimitiveType(p) == [kind |-> "prim", name |-> p, id |-> 0, args |-> <<>>]
FunctionType(dom, cod) == [kind |-> "fun", name |-> "", id |-> 0, args |-> <<dom, cod>>]
TupleType(elems) == [kind |-> "tuple", name |-> "", id |-> 0, args |-> elems]

\* ------------------------------------------------------------ identity store
BuiltinClasses ==
    <<"Integer", "Mul", "Add", "Equal", "Less", "LessOrEqual", "Greater", "GreaterOrEqual">>

NumBuiltin == Len(BuiltinClasses)

\* annotation<TypeClassRegistration>().builtinClasses.at(_builtinClass)
RegisteredTypeClass(b) == CHOOSE i \in 1..NumBuiltin : BuiltinClasses[i] = b

BuiltinTypeClasses == 1..NumBuiltin

\* annotation<TypeClassRegistration>(_typeClassDefinition).typeClass.value()
UserTypeClass(i) == NumBuiltin + i

\* typeClassInfo(tc).typeVariable: the class's declared type variable.
TypeClassTypeVariable(tc) == Var(tc)

\* --------------------------------------------------------------- bootstrap
\* The bootstrap works on st = [operators, typeClassFunctions, nextVar].

\* std::map::emplace: inserts only when the key is absent.
EmplaceOverwrites(m, k, v) == [map |-> MapAssign(m, k, v), second |-> ~(k \in DOMAIN m)]
Emplace(m, k, v) ==
    IF k \in DOMAIN m
    THEN [map |-> m, second |-> FALSE]
    ELSE [map |-> MapAssign(m, k, v), second |-> TRUE]

\* m_typeSystem.freshTypeVariable({})
FreshTypeVariable(nv) == [type |-> Var(nv), nextVar |-> nv + 1]

DefineConversionFreshCodomain(st, builtinClass, fromType, functionName) ==
    LET tc == RegisteredTypeClass(builtinClass)
        fresh == FreshTypeVariable(st.nextVar)
    IN [st EXCEPT
          !.nextVar = fresh.nextVar,
          !.typeClassFunctions = MapAssign(@, tc,
              SingletonMap(functionName, FunctionType(PrimitiveType(fromType), fresh.type)))]
DefineConversion(st, builtinClass, fromType, functionName) ==
    LET tc == RegisteredTypeClass(builtinClass)
    IN [st EXCEPT
          !.typeClassFunctions = MapAssign(@, tc,
              SingletonMap(functionName,
                  FunctionType(PrimitiveType(fromType), TypeClassTypeVariable(tc))))]

DefineBinaryMonoidalOperatorNoBinding(st, builtinClass, token, functionName) ==
    LET tc == RegisteredTypeClass(builtinClass)
        typeVar == TypeClassTypeVariable(tc)
    IN [st EXCEPT
          !.typeClassFunctions = MapAssign(@, tc,
              SingletonMap(functionName,
                  FunctionType(TupleType(<<typeVar, typeVar>>), typeVar)))]
DefineBinaryMonoidalOperator(st, builtinClass, token, functionName) ==
    LET tc == RegisteredTypeClass(builtinClass)
        typeVar == TypeClassTypeVariable(tc)
    IN [st EXCEPT
          !.operators = Emplace(@, token, [typeClass |-> tc, name |-> functionName]).map,
          !.typeClassFunctions = MapAssign(@, tc,
              SingletonMap(functionName,
                  FunctionType(TupleType(<<typeVar, typeVar>>), typeVar)))]

DefineBinaryCompareOperatorSelfCodomain(st, builtinClass, token, functionName) ==
    LET tc == RegisteredTypeClass(builtinClass)
        typeVar == TypeClassTypeVariable(tc)
    IN [st EXCEPT
          !.operators = Emplace(@, token, [typeClass |-> tc, name |-> functionName]).map,
          !.typeClassFunctions = MapAssign(@, tc,
              SingletonMap(functionName,
                  FunctionType(TupleType(<<typeVar, typeVar>>), typeVar)))]
DefineBinaryCompareOperator(st, builtinClass, token, functionName) ==
    LET tc == RegisteredTypeClass(builtinClass)
        typeVar == TypeClassTypeVariable(tc)
    IN [st EXCEPT
          !.operators = Emplace(@, token, [typeClass |-> tc, name |-> functionName]).map,
          !.typeClassFunctions = MapAssign(@, tc,
              SingletonMap(functionName,
                  FunctionType(TupleType(<<typeVar, typeVar>>), PrimitiveType("Bool"))))]

\* The constructor's body, l.78-87.
BootstrapSwappedTokens(st) ==
    LET s1 == DefineConversion(st, "Integer", "Integer", "fromInteger")
        s2 == DefineBinaryMonoidalOperator(s1, "Mul", "Mul", "mul")
        s3 == DefineBinaryMonoidalOperator(s2, "Add", "Add", "add")
        s4 == DefineBinaryCompareOperator(s3, "Equal", "Equal", "eq")
        s5 == DefineBinaryCompareOperator(s4, "Less", "LessThanOrEqual", "lt")
        s6 == DefineBinaryCompareOperator(s5, "LessOrEqual", "LessThan", "leq")
        s7 == DefineBinaryCompareOperator(s6, "Greater", "GreaterThan", "gt")
    IN DefineBinaryCompareOperator(s7, "GreaterOrEqual", "GreaterThanOrEqual", "geq")
Bootstrap(st) ==
    LET s1 == DefineConversion(st, "Integer", "Integer", "fromInteger")
        s2 == DefineBinaryMonoidalOperator(s1, "Mul", "Mul", "mul")
        s3 == DefineBinaryMonoidalOperator(s2, "Add", "Add", "add")
        s4 == DefineBinaryCompareOperator(s3, "Equal", "Equal", "eq")
        s5 == DefineBinaryCompareOperator(s4, "Less", "LessThan", "lt")
        s6 == DefineBinaryCompareOperator(s5, "LessOrEqual", "LessThanOrEqual", "leq")
        s7 == DefineBinaryCompareOperator(s6, "Greater", "GreaterThan", "gt")
    IN DefineBinaryCompareOperator(s7, "GreaterOrEqual", "GreaterThanOrEqual", "geq")

\* ----------------------------------------------------------- error reporter
DuplicateErrorId == 3195

\* m_errorReporter.hasErrors()
HasErrors(errs) == Len(errs) > 0

\* m_errorReporter.fatalTypeError: records the error, then throws FatalError.
FatalTypeError(errs, errorId, location) ==
    [errors |-> Append(errs, [errorId |-> errorId, location |-> location]), throws |-> TRUE]

\* functionDefinition->location() of member j of class definition i.
ClassLocation(i, j) == [class |-> i, member |-> 0]
Location(i, j) == [class |-> i, member |-> j]

\* An error some earlier pass left in the reporter.
PriorError == [errorId |-> 0, location |-> [class |-> 0, member |-> 0]]

\* ------------------------------------------------------------------ endVisit
\* std::map<std::string, Type> functionTypes; (l.103)
AllRegisteredNames(tcf) ==
    LET names == UNION {DOMAIN tcf[tc] : tc \in DOMAIN tcf}
    IN [n \in names |-> Var(0)]
InitialFunctionTypes(tcf) == EmptyMap

\* The two freshTypeVariable calls of l.110-111 and the function type built
\* from them; the arguments are evaluated in the order the build chose.
MemberFunctionTypeSharedVariable(nv, order) ==
    LET a == FreshTypeVariable(nv)
    IN [type |-> FunctionType(a.type, a.type), nextVar |-> a.nextVar]
MemberFunctionType(nv, order) ==
    LET a == FreshTypeVariable(nv)
        b == FreshTypeVariable(a.nextVar)
    IN [type |-> IF order = "ltr" THEN FunctionType(a.type, b.type)
                                  ELSE FunctionType(b.type, a.type),
        nextVar |-> b.nextVar]

\* The loop of l.104-121 from member j on; loc.errors is the reporter's list.
RECURSIVE VisitSubNodes(_, _, _, _)
VisitSubNodes(i, j, order, loc) ==
    LET members == sourceUnit[i]
    IN IF j > Len(members) THEN loc
       ELSE LET ft == MemberFunctionType(loc.nextVar, order)
                ins == Emplace(loc.functionTypes, members[j], ft.type)
                afterInsert == [loc EXCEPT !.functionTypes = ins.map,
                                           !.nextVar = ft.nextVar]
            IN IF ~ins.second
               THEN LET rep == FatalTypeError(loc.errors, DuplicateErrorId, Location(i, j))
                    IN IF rep.throws
                       THEN [afterInsert EXCEPT !.errors = rep.errors, !.thrown = TRUE]
                       ELSE VisitSubNodes(i, j + 1, order,
                                [afterInsert EXCEPT !.errors = rep.errors])
               ELSE VisitSubNodes(i, j + 1, order, afterInsert)

\* annotation().typeClassFunctions[typeClass] = std::move(functionTypes); (l.123)
StoreUnderFirstBuiltin(tcf, typeClass, ft) == MapAssign(tcf, 1, ft)
StoreMemberTable(tcf, typeClass, ft) == MapAssign(tcf, typeClass, ft)

\* ------------------------------------------------------------------- analyze
\* return !m_errorReporter.hasErrors(); (l.93)
AnalyzeResultNotNegated(errs) == IF HasErrors(errs) THEN "true" ELSE "false"
AnalyzeResult(errs) == IF ~HasErrors(errs) THEN "true" ELSE "false"

\* -------------------------------------------------------------------- inputs
MemberLists == UNION {[1..n -> Names] : n \in 0..MaxMembers}
SourceUnits == UNION {[1..n -> MemberLists] : n \in 0..MaxClasses}

Init ==
    /\ sourceUnit \in SourceUnits
    /\ argOrder \in {"ltr", "rtl"}
    /\ priorErrors \in 0..MaxPriorErrors
    /\ errors = [k \in 1..priorErrors |-> PriorError]
    /\ pc = "new"
    /\ constructions = 0
    /\ visited = 0
    /\ operators = EmptyMap
    /\ typeClassFunctions = EmptyMap
    /\ nextVar = NumBuiltin + Len(sourceUnit) + 1
    /\ functionTypes = EmptyMap
    /\ result = "none"

\* ------------------------------------------------------------------- actions
\* TypeClassMemberRegistration::TypeClassMemberRegistration
Construct ==
    /\ pc # "analyzing"
    /\ constructions < MaxConstructions
    /\ LET st == Bootstrap([operators |-> operators,
                            typeClassFunctions |-> typeClassFunctions,
                            nextVar |-> nextVar])
       IN /\ operators' = st.operators
          /\ typeClassFunctions' = st.typeClassFunctions
          /\ nextVar' = st.nextVar
    /\ constructions' = constructions + 1
    /\ pc' = IF pc = "new" THEN "ready" ELSE pc
    /\ UNCHANGED <<sourceUnit, argOrder, visited, errors, priorErrors, functionTypes, result>>

\* analyze: _sourceUnit.accept(*this) starts the traversal.
AnalyzeBegin ==
    /\ pc = "ready"
    /\ pc' = "analyzing"
    /\ UNCHANGED <<sourceUnit, argOrder, constructions, visited, operators,
                   typeClassFunctions, errors, priorErrors, nextVar, functionTypes, result>>

\* endVisit(TypeClassDefinition) for the next class definition of the traversal.
EndVisit ==
    /\ pc = "analyzing"
    /\ visited < Len(sourceUnit)
    /\ LET i == visited + 1
           typeClass == UserTypeClass(i)
           out == VisitSubNodes(i, 1, argOrder,
                      [functionTypes |-> InitialFunctionTypes(typeClassFunctions),
                       nextVar |-> nextVar,
                       errors |-> errors,
                       thrown |-> FALSE])
       IN /\ visited' = i
          /\ functionTypes' = out.functionTypes
          /\ nextVar' = out.nextVar
          /\ errors' = out.errors
          /\ IF out.thrown
             THEN /\ pc' = "threw"
                  /\ UNCHANGED typeClassFunctions
             ELSE /\ pc' = pc
                  /\ typeClassFunctions' =
                         StoreMemberTable(typeClassFunctions, typeClass, out.functionTypes)
    /\ UNCHANGED <<sourceUnit, argOrder, constructions, operators, priorErrors, result>>

\* analyze: the traversal is over; return !m_errorReporter.hasErrors().
AnalyzeReturn ==
    /\ pc = "analyzing"
    /\ visited = Len(sourceUnit)
    /\ result' = AnalyzeResult(errors)
    /\ pc' = "done"
    /\ UNCHANGED <<sourceUnit, argOrder, constructions, visited, operators,
                   typeClassFunctions, errors, priorErrors, nextVar, functionTypes>>

Next == Construct \/ AnalyzeBegin \/ EndVisit \/ AnalyzeReturn

Spec == Init /\ [][Next]_vars

\* ======================================================= properties' vocabulary
Range(seq) == {seq[k] : k \in 1..Len(seq)}

\* Two declarations of the class share a name.
HasDuplicate(members) ==
    \E a, b \in 1..Len(members) : a < b /\ members[a] = members[b]

\* A declaration whose name an earlier declaration of the class already bears.
IsRepeat(members, j) == \E a \in 1..(j - 1) : members[a] = members[j]

\* The first such declaration, in declaration order.
FirstRepeat(members) ==
    CHOOSE j \in 1..Len(members) :
        IsRepeat(members, j) /\ \A k \in 1..(j - 1) : ~IsRepeat(members, k)

\* The first declaration bearing the name of declaration j.
FirstOccurrence(members, j) ==
    CHOOSE a \in 1..j : members[a] = members[j] /\ \A k \in 1..(a - 1) : members[k] # members[j]

\* The diagnostics this run added to the reporter.
Raised == SubSeq(errors, priorErrors + 1, Len(errors))

RECURSIVE VarIds(_)
VarIds(t) ==
    IF t.kind = "var" THEN {t.id}
    ELSE UNION {VarIds(t.args[k]) : k \in 1..Len(t.args)}

TableVarIds(table) == UNION {VarIds(table[n]) : n \in DOMAIN table}

\* A function type whose domain and codomain are two different type variables.
IsFreshPairFunction(t) ==
    /\ t.kind = "fun"
    /\ Len(t.args) = 2
    /\ t.args[1].kind = "var"
    /\ t.args[2].kind = "var"
    /\ t.args[1].id # t.args[2].id

SevenBindings ==
    [t \in {"Mul", "Add", "Equal", "LessThan", "LessThanOrEqual",
            "GreaterThan", "GreaterThanOrEqual"} |->
        CASE t = "Mul" -> [typeClass |-> RegisteredTypeClass("Mul"), name |-> "mul"]
          [] t = "Add" -> [typeClass |-> RegisteredTypeClass("Add"), name |-> "add"]
          [] t = "Equal" -> [typeClass |-> RegisteredTypeClass("Equal"), name |-> "eq"]
          [] t = "LessThan" -> [typeClass |-> RegisteredTypeClass("Less"), name |-> "lt"]
          [] t = "LessThanOrEqual" ->
                 [typeClass |-> RegisteredTypeClass("LessOrEqual"), name |-> "leq"]
          [] t = "GreaterThan" -> [typeClass |-> RegisteredTypeClass("Greater"), name |-> "gt"]
          [] t = "GreaterThanOrEqual" ->
                 [typeClass |-> RegisteredTypeClass("GreaterOrEqual"), name |-> "geq"]]

\* function(tuple(self, self)) -> cod
BinarySignature(self, cod) ==
    [kind |-> "fun", name |-> "", id |-> 0,
     args |-> <<[kind |-> "tuple", name |-> "", id |-> 0, args |-> <<self, self>>], cod>>]

SelfType(b) == [kind |-> "var", name |-> "", id |-> RegisteredTypeClass(b), args |-> <<>>]
Boolean == [kind |-> "prim", name |-> "Bool", id |-> 0, args |-> <<>>]
IntegerPrimitive == [kind |-> "prim", name |-> "Integer", id |-> 0, args |-> <<>>]

CanonicalMemberName(b) ==
    CASE b = "Integer" -> "fromInteger"
      [] b = "Mul" -> "mul"
      [] b = "Add" -> "add"
      [] b = "Equal" -> "eq"
      [] b = "Less" -> "lt"
      [] b = "LessOrEqual" -> "leq"
      [] b = "Greater" -> "gt"
      [] b = "GreaterOrEqual" -> "geq"

CanonicalSignature(b) ==
    IF b = "Integer"
    THEN [kind |-> "fun", name |-> "", id |-> 0, args |-> <<IntegerPrimitive, SelfType(b)>>]
    ELSE IF b \in {"Mul", "Add"}
         THEN BinarySignature(SelfType(b), SelfType(b))
         ELSE BinarySignature(SelfType(b), Boolean)

HasCanonicalTable(tcf, b) ==
    LET tc == RegisteredTypeClass(b)
    IN /\ tc \in DOMAIN tcf
       /\ DOMAIN tcf[tc] = {CanonicalMemberName(b)}
       /\ tcf[tc][CanonicalMemberName(b)] = CanonicalSignature(b)

\* ==================================================================== claims

\* C1 as stated: a class with a duplicated member name raises exactly one
\* diagnostic, located at the last declaration bearing the duplicated name.
C1_LocatedAtLastOccurrence ==
    \A i \in 1..visited :
        HasDuplicate(sourceUnit[i]) =>
            /\ Len(Raised) = 1
            /\ Raised[1].location.class = i
            /\ LET m == sourceUnit[i]
                   j == Raised[1].location.member
               IN /\ j \in 1..Len(m)
                  /\ IsRepeat(m, j)
                  /\ \A k \in (j + 1)..Len(m) : m[k] # m[j]

\* C1, amended: a class with a duplicated member name raises exactly one
\* fatal diagnostic (error 3195), located at the first declaration, in
\* declaration order, whose name an earlier declaration already bears.
C1_OneDiagnosticAtFirstRepeat ==
    \A i \in 1..visited :
        HasDuplicate(sourceUnit[i]) =>
            /\ Len(Raised) = 1
            /\ Raised[1].errorId = 3195
            /\ Raised[1].location.class = i
            /\ Raised[1].location.member = FirstRepeat(sourceUnit[i])

C1_Witness ==
    /\ visited >= 1
    /\ sourceUnit[visited] = <<"show", "show", "show">>
    /\ Len(Raised) = 1

\* C2 as stated: after a class with a duplicated member name was processed,
\* the store holds a table for the class with one entry for that name, the
\* signature built for the first occurrence.
C2_StoredTableKeepsFirst ==
    \A i \in 1..visited :
        HasDuplicate(sourceUnit[i]) =>
            /\ UserTypeClass(i) \in DOMAIN typeClassFunctions
            /\ sourceUnit[i][FirstRepeat(sourceUnit[i])]
                   \in DOMAIN typeClassFunctions[UserTypeClass(i)]

\* C2, amended: after a class with a duplicated member name was processed,
\* the store holds no table for the class (the fatal diagnostic leaves
\* endVisit before the table is stored); the table under construction when
\* the diagnostic was raised has one entry per name declared so far, and
\* the duplicated name's entry is the signature built for its first
\* occurrence, not the one built for the repeat.
C2_NoStoredTableLocalKeepsFirst ==
    \A i \in 1..visited :
        HasDuplicate(sourceUnit[i]) =>
            LET m == sourceUnit[i]
                r == FirstRepeat(m)
                a == FirstOccurrence(m, r)
                base == nextVar - 2 * (r - a + 1)
            IN /\ UserTypeClass(i) \notin DOMAIN typeClassFunctions
               /\ DOMAIN functionTypes = {m[k] : k \in 1..r}
               /\ IsFreshPairFunction(functionTypes[m[r]])
               /\ VarIds(functionTypes[m[r]]) = {base, base + 1}

C2_Witness ==
    /\ visited >= 1
    /\ sourceUnit[visited] = <<"show", "show">>
    /\ pc = "threw"
    /\ "show" \in DOMAIN functionTypes

\* C3: once the constructor has run, the operator table is exactly the seven
\* bindings Mul/mul, Add/add, Equal/eq, LessThan/lt, LessThanOrEqual/leq,
\* GreaterThan/gt, GreaterThanOrEqual/geq, each to its builtin class.
C3_SevenOperatorBindings ==
    constructions >= 1 =>
        /\ DOMAIN operators = {"Mul", "Add", "Equal", "LessThan", "LessThanOrEqual",
                               "GreaterThan", "GreaterThanOrEqual"}
        /\ operators = SevenBindings
        /\ \A t \in DOMAIN operators : operators[t].typeClass \in BuiltinTypeClasses

C3_Witness == pc = "ready" /\ constructions = 1 /\ Cardinality(DOMAIN operators) = 7

\* C4: once the constructor has run and no user class was processed, the
\* member-table store is keyed by exactly the eight builtin classes, each
\* with its one canonical member and signature, and no diagnostic was raised.
C4_BuiltinTablesCanonical ==
    (constructions >= 1 /\ visited = 0) =>
        /\ DOMAIN typeClassFunctions = BuiltinTypeClasses
        /\ Cardinality(DOMAIN typeClassFunctions) = 8
        /\ \A k \in 1..Len(BuiltinClasses) : HasCanonicalTable(typeClassFunctions, BuiltinClasses[k])
        /\ Len(errors) = priorErrors

C4_Witness ==
    /\ constructions >= 1
    /\ visited = 0
    /\ pc = "done"
    /\ Len(sourceUnit) = 0
    /\ DOMAIN typeClassFunctions = BuiltinTypeClasses

\* C5: processing a user class whose member names are all distinct raises
\* no diagnostic and stores, under the class's TypeClass, one entry per
\* declared name: a function type over two fresh type variables, distinct
\* from each other and from every other member's.
C5_DistinctNamesTable ==
    [][(visited' = visited + 1 /\ ~HasDuplicate(sourceUnit[visited + 1])) =>
          LET m == sourceUnit[visited + 1]
              tc == UserTypeClass(visited + 1)
              used == UNION {TableVarIds(typeClassFunctions[c]) : c \in DOMAIN typeClassFunctions}
                          \cup {TypeClassTypeVariable(UserTypeClass(k)).id : k \in 1..Len(sourceUnit)}
          IN /\ errors' = errors
             /\ tc \in DOMAIN typeClassFunctions'
             /\ DOMAIN typeClassFunctions'[tc] = Range(m)
             /\ Cardinality(DOMAIN typeClassFunctions'[tc]) = Len(m)
             /\ \A n \in Range(m) :
                    /\ IsFreshPairFunction(typeClassFunctions'[tc][n])
                    /\ VarIds(typeClassFunctions'[tc][n]) \cap used = {}
             /\ \A n1, n2 \in Range(m) :
                    n1 # n2 => VarIds(typeClassFunctions'[tc][n1])
                                   \cap VarIds(typeClassFunctions'[tc][n2]) = {}]_vars

C5_Witness ==
    /\ visited >= 1
    /\ sourceUnit[1] = <<"show", "eq">>
    /\ UserTypeClass(1) \in DOMAIN typeClassFunctions
    /\ DOMAIN typeClassFunctions[UserTypeClass(1)] = {"show", "eq"}

\* C6 as stated: analyze returns true exactly when the run raised no
\* diagnostic, whatever the reporter held before, and returns false when the
\* run raised a duplicate-member diagnostic.
C6_TrueIffRunRaisedNone ==
    (pc \in {"done", "threw"}) =>
        /\ (result = "true") <=> (Len(Raised) = 0)
        /\ (Len(Raised) > 0) => (result = "false")

\* C6, amended: analyze returns true exactly when the reporter holds no
\* error once the traversal is over, that is when it held none before the
\* call and the run raised none; it returns false when the run raised none
\* but the reporter already held an error; when the run raises a
\* duplicate-member diagnostic, the fatal error leaves analyze without a
\* return value and the reporter holds the error.
C6_TrueIffReporterEmpty ==
    /\ (pc = "done") =>
          /\ result \in {"true", "false"}
          /\ Len(Raised) = 0
          /\ (result = "true") <=> (priorErrors = 0)
    /\ (Len(Raised) > 0) => (pc = "threw" /\ result = "none" /\ Len(errors) > 0)
    /\ (pc = "threw") => Len(Raised) > 0

C6_Witness == pc = "done" /\ result = "false" /\ priorErrors = 1 /\ visited >= 1

\* C7: the operator table holds the seven bindings when the first user
\* class is processed, and no step from then on changes it.
C7_OperatorsFixedBeforeVisits ==
    [][(visited' # visited \/ visited >= 1) =>
          (operators = SevenBindings /\ operators' = operators)]_vars

C7_Witness == visited = 2 /\ constructions = 2 /\ operators = SevenBindings

\* C8: running the bootstrap again on the store it already populated leaves
\* the operator table and every member table as they were.
C8_BootstrapIdempotent ==
    [][(constructions' = constructions + 1 /\ constructions >= 1) =>
          /\ operators' = operators
          /\ typeClassFunctions' = typeClassFunctions
          /\ \A b \in BuiltinTypeClasses :
                 typeClassFunctions'[b] = typeClassFunctions[b]]_vars

C8_Witness == constructions = 2 /\ visited >= 1

\* C9: processing a user class writes only the entry keyed by that class's
\* TypeClass; every other entry is left as it was and none is removed.
C9_EndVisitFrame ==
    [][/\ DOMAIN typeClassFunctions \subseteq DOMAIN typeClassFunctions'
       /\ (visited' = visited + 1) =>
             /\ DOMAIN typeClassFunctions' \subseteq
                    DOMAIN typeClassFunctions \cup {UserTypeClass(visited + 1)}
             /\ \A k \in DOMAIN typeClassFunctions :
                    k # UserTypeClass(visited + 1) =>
                        typeClassFunctions'[k] = typeClassFunctions[k]]_vars

C9_Witness ==
    /\ visited = 2
    /\ UserTypeClass(1) \in DOMAIN typeClassFunctions
    /\ UserTypeClass(2) \in DOMAIN typeClassFunctions
    /\ typeClassFunctions[UserTypeClass(1)] # typeClassFunctions[UserTypeClass(2)]

\* C10: a member name shared with another class (user or builtin) is no
\* duplicate: a class whose own names are distinct gets no diagnostic, and
\* its table holds its own entry for the name, over its own pair of fresh
\* type variables.
C10_DuplicatesScopedToClass ==
    \A j \in 1..visited :
        LET m == sourceUnit[j]
            tc == UserTypeClass(j)
            others == DOMAIN typeClassFunctions \ {tc}
        IN (/\ ~HasDuplicate(m)
            /\ \E n \in Range(m) : \E c \in others : n \in DOMAIN typeClassFunctions[c]) =>
               /\ \A e \in 1..Len(Raised) : Raised[e].location.class # j
               /\ tc \in DOMAIN typeClassFunctions
               /\ \A n \in Range(m) :
                      /\ n \in DOMAIN typeClassFunctions[tc]
                      /\ IsFreshPairFunction(typeClassFunctions[tc][n])
                      /\ \A c \in others :
                             VarIds(typeClassFunctions[tc][n])
                                 \cap TableVarIds(typeClassFunctions[c]) = {}

C10_Witness ==
    /\ visited = 2
    /\ sourceUnit[1] = <<"show", "eq">>
    /\ sourceUnit[2] = <<"eq", "show">>
    /\ UserTypeClass(2) \in DOMAIN typeClassFunctions
    /\ Len(Raised) = 0

====
